---------------------------- MODULE Spec2Model ----------------------------
(***************************************************************************)
(* PySweeper: the GameBoard class of src/src/pysweeper/board.py and the    *)
(* command loop of src/src/pysweeper/__main__.py.                          *)
(*                                                                         *)
(* A coordinate is a pair <<row, col>> of symbols of COORD_LIST, as in the *)
(* source.  A cell is a record [name, mine, is_open, is_flagged].          *)
(* GameBoard._board is a class attribute (board.py:25): one dictionary     *)
(* shared by every GameBoard of the process; _create_board assigns into    *)
(* it, key by key.  The variable board is that dictionary.                 *)
(***************************************************************************)
EXTENDS Integers, Sequences, FiniteSets, TLC

VARIABLES
    board,        \* GameBoard._board: coordinate -> cell (shared by all instances)
    board_cells,  \* self._board_cells: the coordinates of the instance's grid
    mine_cells,   \* self._mine_cells: the coordinates sampled as mines
    r_size,       \* self._r_size (0: attribute not set)
    c_size,       \* self._c_size (0: attribute not set)
    mines_left,   \* self._mines_left (0: attribute not set)
    max_r,        \* self._max_r
    max_c,        \* self._max_c
    call,         \* arguments of the latest GameBoard(...) call
    instances,    \* number of GameBoard(...) calls made in this process
    raised,       \* exception raised by the latest call ("none": returned normally)
    status        \* where main is: "playing" (in the loop), "won", "lost",
                  \* "exit" (left through except ValueError)

vars == <<board, board_cells, mine_cells, r_size, c_size, mines_left,
          max_r, max_c, call, instances, raised, status>>

---------------------------------------------------------------------------
(* Bounds of the model *)

MaxRows == 3
MaxCols == 3
MaxMines == 2
MaxFlags == 1
MaxBoards == 2

---------------------------------------------------------------------------
(* Symbols and conversions *)

COORD_LIST ==
    << "0", "1", "2", "3", "4", "5", "6", "7", "8", "9", "A", "B",
       "C", "D", "E", "F", "G", "H", "I", "J", "K", "L", "M", "N",
       "O", "P", "Q", "R", "S", "T", "U", "V", "W", "X", "Y", "Z" >>

\* COORD_LIST.index(sym), 0-based
index(sym) == (CHOOSE i \in 1..Len(COORD_LIST) : COORD_LIST[i] = sym) - 1

\* COORD_LIST[i], 0-based
symbol(i) == COORD_LIST[i + 1]

DIGITS == << "0", "1", "2", "3", "4", "5", "6", "7", "8" >>

\* str(n) for a neighbour count n in 0..8
str(n) == DIGITS[n + 1]

\* int(s) raises ValueError unless s is a decimal literal
int_raises(s) == \A i \in 1..Len(DIGITS) : DIGITS[i] # s

\* int(s) for a label that is a decimal literal
int(s) == (CHOOSE i \in 1..Len(DIGITS) : DIGITS[i] = s) - 1

---------------------------------------------------------------------------
(* GameCell (pysweeper/cell.py) *)

\* GameCell(name=..., mine=...): a closed, unflagged cell
GameCell(name, mine) ==
    [name |-> name, mine |-> mine, is_open |-> FALSE, is_flagged |-> FALSE]

\* the cell after GameCell.open(): open, whatever it was
cell_opened(cell) == [cell EXCEPT !.is_open = TRUE]

\* the value GameCell.open() returns: whether the cell is a mine
cell_open(cell) == cell.mine

\* GameCell.is_safe(): no mine here and none around
is_safe(cell) == ~cell.mine /\ cell.name = "0"

\* the cell after GameCell.toggle()
toggle(cell) == [cell EXCEPT !.is_flagged = ~cell.is_flagged]

---------------------------------------------------------------------------
(* GameBoard: neighbours *)

\* the (r2, c2) loops of _get_neighbors, as offsets from the cell, in loop order
OFFSETS ==
    << <<-1, -1>>, <<-1, 0>>, <<-1, 1>>,
       << 0, -1>>, << 0, 0>>, << 0, 1>>,
       << 1, -1>>, << 1, 0>>, << 1, 1>> >>

\* neighbors with range(_cell_c-1, _cell_c+1): the column to the right is missed
neighbors_short_range(rs, cs, cell) ==
    LET cell_r == index(cell[1])
        cell_c == index(cell[2])
        keep(d) ==
            LET r2 == cell_r + d[1]
                c2 == cell_c + d[2]
            IN  /\ d[2] < 1
                /\ (cell_r # r2 \/ cell_c # c2)
                /\ 0 <= r2 /\ r2 <= rs - 1
                /\ 0 <= c2 /\ c2 <= cs - 1
        kept == SelectSeq(OFFSETS, keep)
    IN  [i \in 1..Len(kept) |->
            <<symbol(cell_r + kept[i][1]), symbol(cell_c + kept[i][2])>>]

\* _neighbors of _get_neighbors: the list comprehension, in its order
neighbors(rs, cs, cell) ==
    LET cell_r == index(cell[1])
        cell_c == index(cell[2])
        keep(d) ==
            LET r2 == cell_r + d[1]
                c2 == cell_c + d[2]
            IN  /\ (cell_r # r2 \/ cell_c # c2)
                /\ 0 <= r2 /\ r2 <= rs - 1
                /\ 0 <= c2 /\ c2 <= cs - 1
        kept == SelectSeq(OFFSETS, keep)
    IN  [i \in 1..Len(kept) |->
            <<symbol(cell_r + kept[i][1]), symbol(cell_c + kept[i][2])>>]

\* _neighbors for every board size of the model and every cell of it,
\* computed once
NEIGHBORS ==
    [rs \in 2..MaxRows, cs \in 2..MaxCols |->
        [cell \in {<<symbol(r), symbol(c)>> :
                        r \in 0..(rs - 1), c \in 0..(cs - 1)} |->
            neighbors(rs, cs, cell)]]

\* _get_neighbors(_cell, flagged, unmarked)
get_neighbors(b, rs, cs, cell, flagged, unmarked) ==
    LET is_unmarked(c) == ~b[c].is_flagged /\ ~b[c].is_open
        is_flagged(c) == b[c].is_flagged
    IN  IF unmarked THEN SelectSeq(NEIGHBORS[rs, cs][cell], is_unmarked)
        ELSE IF flagged THEN SelectSeq(NEIGHBORS[rs, cs][cell], is_flagged)
        ELSE NEIGHBORS[rs, cs][cell]

---------------------------------------------------------------------------
(* GameBoard: construction *)

\* _get_term_size: term is os.get_terminal_size(), <<columns, lines>>
get_term_size(term) ==
    LET mr == IF term[1] > 46 THEN 36 ELSE term[1] - 10
        mc == IF term[2] > 41 THEN 36 ELSE term[2] - 7
    IN  [max_r |-> mr, max_c |-> mc,
         raised |-> IF mr < 0 THEN "Screen is too narrow"
                    ELSE IF mc < 0 THEN "Screen is too short"
                    ELSE "none"]

\* set_r_size with size < self._max_r: the largest height is refused
set_r_size_strict(size, mr) ==
    IF 1 < size /\ size < mr THEN "none" ELSE "Board height"

\* the r_size setter: the exception it raises, "none" when it stores size
set_r_size(size, mr) ==
    IF 1 < size /\ size <= mr THEN "none" ELSE "Board height"

\* the c_size setter: the exception it raises, "none" when it stores size
set_c_size(size, mc) ==
    IF 1 < size /\ size <= mc THEN "none" ELSE "Board width"

\* set_mines_left with mines > r*c: a board of nothing but mines is accepted
set_mines_left_off_by_one(mines, rs, cs, rnd) ==
    LET m == IF mines < 1 THEN rnd ELSE mines
    IN  [mines_left |-> m,
         raised |-> IF m > rs * cs THEN "Too many mines" ELSE "none"]

\* the mines_left setter; rnd is the value random.randrange(1, r*c) returns
set_mines_left(mines, rs, cs, rnd) ==
    LET m == IF mines < 1 THEN rnd ELSE mines
    IN  [mines_left |-> m,
         raised |-> IF m > (rs * cs) - 1 THEN "Too many mines" ELSE "none"]

\* self._board_cells of _create_board
grid(rs, cs) ==
    {<<symbol(r), symbol(c)>> : r \in 0..(rs - 1), c \in 0..(cs - 1)}

\* the cell _create_board stores at _cell; mines is self._mine_cells
new_cell(rs, cs, mines, cell) ==
    IF cell \in mines THEN GameCell("M", TRUE)
    ELSE LET around == get_neighbors(<< >>, rs, cs, cell, FALSE, FALSE)
             neighbor_mines == {i \in 1..Len(around) : around[i] \in mines}
         IN  GameCell(str(Cardinality(neighbor_mines)), FALSE)

\* _create_board: the class dictionary after the loop; the keys of earlier
\* boards that the loop does not assign keep their cells
create_board(b, rs, cs, mines) ==
    [cell \in (DOMAIN b) \cup grid(rs, cs) |->
        IF cell \in grid(rs, cs) THEN new_cell(rs, cs, mines, cell)
        ELSE b[cell]]

\* __init__ up to the _create_board call: the attributes set and the exception
\* raised; an attribute that is not set is 0
init_attrs(term, rows, cols, num_mines, rnd) ==
    LET t == get_term_size(term)
        unset == [max_r |-> t.max_r, max_c |-> t.max_c, r_size |-> 0,
                  c_size |-> 0, mines_left |-> 0, raised |-> t.raised]
    IN  IF t.raised # "none" THEN unset
        ELSE IF set_r_size(rows, t.max_r) # "none"
             THEN [unset EXCEPT !.raised = set_r_size(rows, t.max_r)]
        ELSE IF set_c_size(cols, t.max_c) # "none"
             THEN [unset EXCEPT !.r_size = rows,
                                !.raised = set_c_size(cols, t.max_c)]
        ELSE LET m == set_mines_left(num_mines, rows, cols, rnd)
             IN  IF m.raised # "none"
                 THEN [unset EXCEPT !.r_size = rows, !.c_size = cols,
                                    !.raised = m.raised]
                 ELSE [unset EXCEPT !.r_size = rows, !.c_size = cols,
                                    !.mines_left = m.mines_left]

---------------------------------------------------------------------------
(* GameBoard: play *)

NoError == "none"
ValueError == "invalid literal for int()"

\* line 246: the label of an open cell equals its number of flagged neighbours
chord_ready(b, rs, cs, cell) ==
    int(b[cell].name) = Len(get_neighbors(b, rs, cs, cell, TRUE, FALSE))

RECURSIVE open(_, _, _, _)
RECURSIVE open_each(_, _, _, _)

\* the for loops of open (247-248, 254-255): open is called on each listed
\* cell in turn, its return value is dropped, an exception ends the loop
open_each(b, rs, cs, cells) ==
    IF cells = << >> THEN [board |-> b, raised |-> NoError]
    ELSE LET r == open(b, rs, cs, Head(cells))
         IN  IF r.raised # NoError
             THEN [board |-> r.board, raised |-> r.raised]
             ELSE open_each(r.board, rs, cs, Tail(cells))

\* open without lines 240-243: a flagged cell is opened like any other
open_unguarded(b, rs, cs, cell) ==
    IF b[cell].is_open
    THEN IF int_raises(b[cell].name)
         THEN [board |-> b, ret |-> "None", raised |-> ValueError]
         ELSE IF chord_ready(b, rs, cs, cell)
         THEN LET r == open_each(b, rs, cs,
                           get_neighbors(b, rs, cs, cell, FALSE, TRUE))
              IN  [board |-> r.board,
                   ret |-> IF r.raised = NoError THEN "True" ELSE "None",
                   raised |-> r.raised]
         ELSE [board |-> b, ret |-> "True", raised |-> NoError]
    ELSE LET b1 == [b EXCEPT ![cell] = cell_opened(b[cell])]
         IN  IF ~cell_open(b[cell])
             THEN IF is_safe(b1[cell])
                  THEN LET r == open_each(b1, rs, cs,
                                    get_neighbors(b1, rs, cs, cell, FALSE, TRUE))
                       IN  [board |-> r.board,
                            ret |-> IF r.raised = NoError THEN "True" ELSE "None",
                            raised |-> r.raised]
                  ELSE [board |-> b1, ret |-> "True", raised |-> NoError]
             ELSE [board |-> b1, ret |-> "False", raised |-> NoError]

\* open that cascades from every cell that is no mine, whatever its label
open_cascade_always(b, rs, cs, cell) ==
    IF b[cell].is_flagged
    THEN [board |-> b, ret |-> "True", raised |-> NoError]
    ELSE IF b[cell].is_open
    THEN IF int_raises(b[cell].name)
         THEN [board |-> b, ret |-> "None", raised |-> ValueError]
         ELSE IF chord_ready(b, rs, cs, cell)
         THEN LET r == open_each(b, rs, cs,
                           get_neighbors(b, rs, cs, cell, FALSE, TRUE))
              IN  [board |-> r.board,
                   ret |-> IF r.raised = NoError THEN "True" ELSE "None",
                   raised |-> r.raised]
         ELSE [board |-> b, ret |-> "True", raised |-> NoError]
    ELSE LET b1 == [b EXCEPT ![cell] = cell_opened(b[cell])]
         IN  IF ~cell_open(b[cell])
             THEN LET r == open_each(b1, rs, cs,
                               get_neighbors(b1, rs, cs, cell, FALSE, TRUE))
                  IN  [board |-> r.board,
                       ret |-> IF r.raised = NoError THEN "True" ELSE "None",
                       raised |-> r.raised]
             ELSE [board |-> b1, ret |-> "False", raised |-> NoError]

\* open(row, col): the dictionary afterwards, the value returned ("None" when
\* an exception leaves the call) and the exception raised
open(b, rs, cs, cell) ==
    IF b[cell].is_flagged
    THEN [board |-> b, ret |-> "True", raised |-> NoError]
    ELSE IF b[cell].is_open
    THEN IF int_raises(b[cell].name)
         THEN [board |-> b, ret |-> "None", raised |-> ValueError]
         ELSE IF chord_ready(b, rs, cs, cell)
         THEN LET r == open_each(b, rs, cs,
                           get_neighbors(b, rs, cs, cell, FALSE, TRUE))
              IN  [board |-> r.board,
                   ret |-> IF r.raised = NoError THEN "True" ELSE "None",
                   raised |-> r.raised]
         ELSE [board |-> b, ret |-> "True", raised |-> NoError]
    ELSE LET b1 == [b EXCEPT ![cell] = cell_opened(b[cell])]
         IN  IF ~cell_open(b[cell])
             THEN IF is_safe(b1[cell])
                  THEN LET r == open_each(b1, rs, cs,
                                    get_neighbors(b1, rs, cs, cell, FALSE, TRUE))
                       IN  [board |-> r.board,
                            ret |-> IF r.raised = NoError THEN "True" ELSE "None",
                            raised |-> r.raised]
                  ELSE [board |-> b1, ret |-> "True", raised |-> NoError]
             ELSE [board |-> b1, ret |-> "False", raised |-> NoError]

\* _num_flagged()
num_flagged(b, cells) == Cardinality({c \in cells : b[c].is_flagged})

\* complete()
complete(b, cells) ==
    Cardinality(cells) =
        num_flagged(b, cells) + Cardinality({c \in cells : b[c].is_open})

\* is_cell(row, col)
is_cell(cells, row, col) == <<row, col>> \in cells

\* flag that leaves an open cell alone
flag_closed_only(b, row, col) ==
    IF b[<<row, col>>].is_open THEN b
    ELSE [b EXCEPT ![<<row, col>>] = toggle(b[<<row, col>>])]

\* flag(row, col): the dictionary afterwards
flag(b, row, col) == [b EXCEPT ![<<row, col>>] = toggle(b[<<row, col>>])]

\* reveal that flips the open state of every cell instead of setting it
reveal_toggle(b) ==
    [cell \in DOMAIN b |-> [b[cell] EXCEPT !.is_open = ~b[cell].is_open]]

\* reveal(): the dictionary afterwards; the loop runs over every key of _board
reveal(b) == [cell \in DOMAIN b |-> cell_opened(b[cell])]

---------------------------------------------------------------------------
(* Inputs *)

\* terminal sizes <<columns, lines>>: too small, capping both sizes at 2, roomy
TermSizes == {9, 12, 47} \X {6, 9, 42}

\* the roomy terminal: both maxima are 36
RoomyTerm == <<47, 42>>

RowArgs == 1..MaxRows
ColArgs == 1..MaxCols
MineArgs == ((-1)..MaxMines) \cup {MaxRows * MaxCols}

\* values random.randrange(1, rs * cs) is taken to return
RandRange(rs, cs) == {n \in 1..((rs * cs) - 1) : n <= MaxMines}

\* values random.sample(self._board_cells, k) is taken to return, as sets
Samples(rs, cs, k) == {s \in SUBSET grid(rs, cs) : Cardinality(s) = k}

\* the symbols a player types for a row or a column
Symbols == {symbol(i) : i \in 0..MaxRows} \cup {symbol(i) : i \in 0..MaxCols}

---------------------------------------------------------------------------
(* Construction, as an action: GameBoard(rows, cols, num_mines) on a terminal.
   The class dictionary is left as it is when __init__ raises. *)

\* whether __init__ reaches random.randrange
draws_mines(term, rows, cols, num_mines) ==
    /\ get_term_size(term).raised = "none"
    /\ set_r_size(rows, get_term_size(term).max_r) = "none"
    /\ set_c_size(cols, get_term_size(term).max_c) = "none"
    /\ num_mines < 1

New ==
    /\ instances < MaxBoards
    /\ instances' = instances + 1
    /\ \E term \in TermSizes, rows \in RowArgs, cols \in ColArgs,
          num_mines \in MineArgs :
         \E rnd \in IF draws_mines(term, rows, cols, num_mines)
                    THEN RandRange(rows, cols) ELSE {0} :
           LET a == init_attrs(term, rows, cols, num_mines, rnd)
           IN  /\ call' = [term |-> term, rows |-> rows, cols |-> cols,
                           num_mines |-> num_mines]
               /\ max_r' = a.max_r
               /\ max_c' = a.max_c
               /\ r_size' = a.r_size
               /\ c_size' = a.c_size
               /\ mines_left' = a.mines_left
               /\ raised' = a.raised
               /\ IF a.raised = NoError
                  THEN \E sample \in Samples(rows, cols, a.mines_left) :
                          /\ board_cells' = grid(rows, cols)
                          /\ mine_cells' = sample
                          /\ board' = create_board(board, rows, cols, sample)
                  ELSE /\ board_cells' = {}
                       /\ mine_cells' = {}
                       /\ board' = board
    /\ UNCHANGED status

\* the process before any GameBoard is made
InitNew ==
    /\ board = << >>
    /\ board_cells = {}
    /\ mine_cells = {}
    /\ r_size = 0 /\ c_size = 0 /\ mines_left = 0
    /\ max_r = 0 /\ max_c = 0
    /\ call = [term |-> <<0, 0>>, rows |-> 0, cols |-> 0, num_mines |-> 0]
    /\ instances = 0
    /\ raised = NoError
    /\ status = "playing"

NextNew == New

SpecNew == InitNew /\ [][NextNew]_vars

---------------------------------------------------------------------------
(* Play: the first board of the process, made by main with --rows and --cols
   on a roomy terminal, then any sequence of open and flag calls on cells of
   the board *)

Init ==
    \E rows \in RowArgs, cols \in ColArgs :
      \E rnd \in RandRange(rows, cols) :
        \E sample \in Samples(rows, cols, rnd) :
          LET a == init_attrs(RoomyTerm, rows, cols, -1, rnd)
          IN  /\ a.raised = NoError
              /\ call = [term |-> RoomyTerm, rows |-> rows, cols |-> cols,
                         num_mines |-> -1]
              /\ max_r = a.max_r /\ max_c = a.max_c
              /\ r_size = a.r_size /\ c_size = a.c_size
              /\ mines_left = a.mines_left
              /\ raised = NoError
              /\ board_cells = grid(rows, cols)
              /\ mine_cells = sample
              /\ board = create_board(<< >>, rows, cols, sample)
              /\ instances = 1
              /\ status = "playing"

\* game.open(row, col), the caller catching what it raises
Open(row, col) ==
    /\ is_cell(board_cells, row, col)
    /\ LET r == open(board, r_size, c_size, <<row, col>>)
       IN  /\ board' = r.board
           /\ raised' = r.raised
    /\ UNCHANGED <<board_cells, mine_cells, r_size, c_size, mines_left,
                   max_r, max_c, call, instances, status>>

\* game.flag(row, col); the player keeps at most MaxFlags flags on the board
Flag(row, col) ==
    /\ is_cell(board_cells, row, col)
    /\ board[<<row, col>>].is_flagged \/ num_flagged(board, board_cells) < MaxFlags
    /\ board' = flag(board, row, col)
    /\ raised' = NoError
    /\ UNCHANGED <<board_cells, mine_cells, r_size, c_size, mines_left,
                   max_r, max_c, call, instances, status>>

Next ==
    \E row \in Symbols, col \in Symbols : Open(row, col) \/ Flag(row, col)

Spec == Init /\ [][Next]_vars

---------------------------------------------------------------------------
(* Play with reveal: any sequence of open, flag and reveal calls on the first
   board of the process; complete() and is_cell() change nothing *)

\* game.reveal()
Reveal ==
    /\ board' = reveal(board)
    /\ raised' = NoError
    /\ UNCHANGED <<board_cells, mine_cells, r_size, c_size, mines_left,
                   max_r, max_c, call, instances, status>>

NextAPI ==
    \/ \E row \in Symbols, col \in Symbols : Open(row, col) \/ Flag(row, col)
    \/ Reveal

SpecAPI == Init /\ [][NextAPI]_vars

---------------------------------------------------------------------------
(* The command loop of main: while not game.complete(), one command per
   iteration; reveal and exit on a win, on open returning False, and on a
   ValueError *)

\* the loop ends: complete() holds at the loop test
MainWin ==
    /\ status = "playing"
    /\ complete(board, board_cells)
    /\ board' = reveal(board)
    /\ status' = "won"
    /\ UNCHANGED <<board_cells, mine_cells, r_size, c_size, mines_left,
                   max_r, max_c, call, instances, raised>>

\* "o r c" on a cell of the board
MainOpen(row, col) ==
    /\ status = "playing"
    /\ ~complete(board, board_cells)
    /\ is_cell(board_cells, row, col)
    /\ LET r == open(board, r_size, c_size, <<row, col>>)
       IN  /\ raised' = r.raised
           /\ IF r.raised # NoError
              THEN board' = r.board /\ status' = "exit"
              ELSE IF r.ret = "False"
              THEN board' = reveal(r.board) /\ status' = "lost"
              ELSE board' = r.board /\ status' = "playing"
    /\ UNCHANGED <<board_cells, mine_cells, r_size, c_size, mines_left,
                   max_r, max_c, call, instances>>

\* "f r c" on a cell of the board
MainFlag(row, col) ==
    /\ status = "playing"
    /\ ~complete(board, board_cells)
    /\ is_cell(board_cells, row, col)
    /\ board[<<row, col>>].is_flagged \/ num_flagged(board, board_cells) < MaxFlags
    /\ board' = flag(board, row, col)
    /\ UNCHANGED <<board_cells, mine_cells, r_size, c_size, mines_left,
                   max_r, max_c, call, instances, raised, status>>

\* a command naming no cell of the board: rejected, the loop continues
MainReject(row, col) ==
    /\ status = "playing"
    /\ ~complete(board, board_cells)
    /\ ~is_cell(board_cells, row, col)
    /\ UNCHANGED vars

NextGame ==
    \/ MainWin
    \/ \E row \in Symbols, col \in Symbols :
          MainOpen(row, col) \/ MainFlag(row, col) \/ MainReject(row, col)

SpecGame == Init /\ [][NextGame]_vars

---------------------------------------------------------------------------
(* Properties *)

Abs(n) == IF n < 0 THEN -n ELSE n

\* c and d are distinct and at most one row and one column apart
Adjacent(c, d) ==
    /\ c # d
    /\ Abs(index(c[1]) - index(d[1])) <= 1
    /\ Abs(index(c[2]) - index(d[2])) <= 1

\* the Moore neighbours of c on the instance's grid
Moore(c) == {d \in board_cells : Adjacent(c, d)}

\* what game.open would do on cell c in the current state
OpenResult(c) == open(board, r_size, c_size, c)

\* the cells closed in b1 and open in b2
NewlyOpened(b1, b2) == {c \in board_cells : ~b1[c].is_open /\ b2[c].is_open}

\* S with the label-0 cells adjacent to it
GrowZero(S) ==
    S \cup {d \in board_cells : board[d].name = "0" /\ \E c \in S : Adjacent(c, d)}

RECURSIVE ZeroRegion(_)
\* the connected region of label-0 cells around the label-0 cells S
ZeroRegion(S) == IF GrowZero(S) = S THEN S ELSE ZeroRegion(GrowZero(S))

\* a board has been constructed by the latest GameBoard(...) call
Constructed == instances > 0 /\ raised = NoError

\* C1: in every reachable state and for every cell of the board, an
\* open(cell) call that returns, returns False if some mine cell goes from
\* closed to open during the call, and True otherwise.
C1_OpenFalseIffMineOpened ==
    \A c \in board_cells :
        LET r == OpenResult(c)
        IN  r.raised = NoError
            => r.ret = IF \E m \in NewlyOpened(board, r.board) : board[m].mine
                       THEN "False" ELSE "True"

\* C2: in the command loop, main never wins from a state where a mine cell is
\* open, and a command during which a mine cell becomes open ends the game as
\* a loss.
C2_NoWinWithOpenMine ==
    [][ /\ (status' = "won" => \A m \in mine_cells : ~board[m].is_open)
        /\ ((/\ status' # "won"
             /\ \E m \in mine_cells : ~board[m].is_open /\ board'[m].is_open)
            => status' = "lost") ]_vars

\* C3: in every reachable state, complete() is true if and only if every cell
\* of the board is open or flagged.
C3_CompleteIffAllOpenOrFlagged ==
    complete(board, board_cells)
        <=> \A c \in board_cells : board[c].is_open \/ board[c].is_flagged

\* a closed, unflagged, non-mine cell with label 0
ClosedZero(c) ==
    /\ ~board[c].is_open /\ ~board[c].is_flagged
    /\ ~board[c].mine /\ board[c].name = "0"

\* C4, in full: in every reachable state, open on a closed, unflagged,
\* non-mine cell with label 0 leaves open every cell of the connected region
\* of label-0 cells around it and every cell adjacent to that region, and
\* opens no mine.
C4_CascadeOpensZeroRegion ==
    \A c \in board_cells :
        ClosedZero(c)
        => LET r == OpenResult(c)
               region == ZeroRegion({c})
           IN  /\ \A z \in region : r.board[z].is_open
               /\ \A z \in region : \A d \in Moore(z) : r.board[d].is_open
               /\ \A m \in NewlyOpened(board, r.board) : ~board[m].mine

\* C4, its last clause: in every reachable state, open on a closed, unflagged,
\* non-mine cell with label 0 opens no mine cell.
C4_CascadeOpensNoMine ==
    \A c \in board_cells :
        ClosedZero(c)
        => \A m \in NewlyOpened(board, OpenResult(c).board) : ~board[m].mine

\* C5: no open or flag call on a cell of the board raises an exception,
\* whatever the state of the cell.
C5_NoErrorDuringPlay == raised = NoError

\* C6: for an open cell with numeric label N, open(cell) leaves open every
\* neighbour that was neither open nor flagged when exactly N neighbours are
\* flagged, changes nothing when the number of flagged neighbours differs
\* from N, and in both cases leaves every flagged neighbour as it was.
C6_Chord ==
    \A c \in board_cells :
        (board[c].is_open /\ ~int_raises(board[c].name))
        => LET r == OpenResult(c)
               N == int(board[c].name)
               flagged == {d \in Moore(c) : board[d].is_flagged}
               unmarked == {d \in Moore(c) :
                               ~board[d].is_flagged /\ ~board[d].is_open}
           IN  /\ Cardinality(flagged) = N
                    => \A d \in unmarked : r.board[d].is_open
               /\ Cardinality(flagged) # N => r.board = board
               /\ \A d \in flagged : r.board[d] = board[d]

\* C7: open on a flagged cell returns True and leaves the whole board as it
\* was, whether the cell is a mine or not, open or closed.
C7_OpenFlaggedIsNoOp ==
    \A c \in board_cells :
        board[c].is_flagged
        => OpenResult(c) = [board |-> board, ret |-> "True", raised |-> NoError]

\* C7 happens: a closed mine is flagged next to an open cell whose label is 1,
\* so that opening the mine would end the game, and open returns True
C7_Witness ==
    \E c \in board_cells :
        /\ board[c].is_flagged /\ board[c].mine /\ ~board[c].is_open
        /\ \E d \in Moore(c) : board[d].is_open /\ board[d].name = "1"
        /\ OpenResult(c).ret = "True"

\* C8: after every successful construction the cell mapping of the board has
\* exactly rows*cols cells, one for each coordinate of the grid, exactly
\* mineCount of them mines, all of them closed and unflagged.
C8_BoardHasRowsTimesColsCells ==
    Constructed
    => /\ Cardinality(DOMAIN board) = r_size * c_size
       /\ DOMAIN board = {<<symbol(r), symbol(c)>> :
                             r \in 0..(r_size - 1), c \in 0..(c_size - 1)}
       /\ Cardinality({c \in DOMAIN board : board[c].mine}) = mines_left
       /\ (call.num_mines >= 1 => mines_left = call.num_mines)
       /\ \A c \in DOMAIN board : ~board[c].is_open /\ ~board[c].is_flagged

\* C9: after every successful construction, every mine cell of the grid
\* carries the mine marker and every other cell of the grid is labelled with
\* the number of mines among its Moore neighbours.
C9_LabelsCountNeighborMines ==
    Constructed
    => \A c \in board_cells :
          IF c \in mine_cells
          THEN board[c].mine /\ board[c].name = "M"
          ELSE /\ ~board[c].mine
               /\ ~int_raises(board[c].name)
               /\ int(board[c].name) =
                      Cardinality({d \in Moore(c) : d \in mine_cells})

\* C9 happens: on a board of three rows a corner cell, which has three
\* neighbours, is labelled 2, and another cell is labelled 0
C9_Witness ==
    /\ Constructed
    /\ r_size = 3
    /\ \E c \in board_cells \ mine_cells :
          Cardinality(Moore(c)) = 3 /\ board[c].name = "2"
    /\ \E c \in board_cells \ mine_cells : board[c].name = "0"

DimensionErrors == {"Board height", "Board width"}
ScreenErrors == {"Screen is too narrow", "Screen is too short"}

\* C10: a GameBoard(...) call whose terminal supplied the maxima raises a
\* dimension error exactly when rows is outside [2, max_r] or cols is outside
\* [2, max_c], whatever num_mines is; a call with rows or cols outside the
\* range never returns a board.
C10_DimensionErrorIffOutOfRange ==
    instances > 0
    => LET outside == ~(/\ 2 <= call.rows /\ call.rows <= max_r
                        /\ 2 <= call.cols /\ call.cols <= max_c)
       IN  /\ raised \notin ScreenErrors
                => (raised \in DimensionErrors <=> outside)
           /\ outside => raised # NoError

\* C10 happens: on a roomy terminal rows = 1 is refused, although cols and the
\* number of mines asked for are fine
C10_Witness ==
    /\ instances > 0
    /\ call.rows = 1 /\ call.cols = 2 /\ call.num_mines = 1
    /\ max_r = 36
    /\ raised = "Board height"

\* a sequence, last element first
Reverse(seq) == [i \in 1..Len(seq) |-> seq[Len(seq) + 1 - i]]

Max(a, b) == IF a > b THEN a ELSE b

RECURSIVE open_walk(_, _, _, _, _, _)
RECURSIVE walk_each(_, _, _, _, _, _)

\* the for loops of open, as open_each, with what the calls did: stale is
\* true when some call of the loops was made on a cell that was open or
\* flagged when it was called
walk_each(b, rs, cs, cells, depth, rev) ==
    IF cells = << >>
    THEN [board |-> b, raised |-> NoError, stale |-> FALSE,
          expanded |-> << >>, depth |-> depth - 1]
    ELSE LET target == Head(cells)
             late == b[target].is_open \/ b[target].is_flagged
             r == open_walk(b, rs, cs, target, depth, rev)
         IN  IF r.raised # NoError
             THEN [board |-> r.board, raised |-> r.raised,
                   stale |-> late \/ r.stale,
                   expanded |-> r.expanded, depth |-> r.depth]
             ELSE LET rest == walk_each(r.board, rs, cs, Tail(cells), depth, rev)
                  IN  [board |-> rest.board, raised |-> rest.raised,
                       stale |-> late \/ r.stale \/ rest.stale,
                       expanded |-> r.expanded \o rest.expanded,
                       depth |-> Max(r.depth, rest.depth)]

\* open(row, col) as the depth-th nested call, with its walk: the cells whose
\* loop made calls (expanded, in order), the deepest nesting reached (depth)
\* and stale; with rev the neighbour lists are walked last element first
open_walk(b, rs, cs, cell, depth, rev) ==
    LET listed(l) == IF rev THEN Reverse(l) ELSE l
        looped(b0) ==
            LET cells == listed(get_neighbors(b0, rs, cs, cell, FALSE, TRUE))
                r == walk_each(b0, rs, cs, cells, depth + 1, rev)
            IN  [board |-> r.board,
                 ret |-> IF r.raised = NoError THEN "True" ELSE "None",
                 raised |-> r.raised, stale |-> r.stale,
                 expanded |-> IF cells = << >> THEN << >>
                              ELSE <<cell>> \o r.expanded,
                 depth |-> Max(depth, r.depth)]
        leaf(b0, ret, exc) ==
            [board |-> b0, ret |-> ret, raised |-> exc, stale |-> FALSE,
             expanded |-> << >>, depth |-> depth]
    IN  IF b[cell].is_flagged THEN leaf(b, "True", NoError)
        ELSE IF b[cell].is_open
        THEN IF int_raises(b[cell].name) THEN leaf(b, "None", ValueError)
             ELSE IF chord_ready(b, rs, cs, cell) THEN looped(b)
             ELSE leaf(b, "True", NoError)
        ELSE LET b1 == [b EXCEPT ![cell] = cell_opened(b[cell])]
             IN  IF ~cell_open(b[cell])
                 THEN IF is_safe(b1[cell]) THEN looped(b1)
                      ELSE leaf(b1, "True", NoError)
                 ELSE leaf(b1, "False", NoError)

\* the walk of game.open on cell c in the current state
Walk(c) == open_walk(board, r_size, c_size, c, 1, FALSE)

\* the walk computes what open computes
WalkAgreesWithOpen ==
    \A c \in board_cells :
        LET w == Walk(c)
        IN  OpenResult(c) = [board |-> w.board, ret |-> w.ret, raised |-> w.raised]

\* C15: in every reachable state and for every cell, the calls open(cell)
\* makes on neighbours are made on cells that are closed and unflagged when
\* called, no cell runs its loop of calls twice, and the nesting of the calls
\* is at most the number of cells of the board.
C15_RecursionVisitsClosedCellsOnce ==
    \A c \in board_cells :
        LET w == Walk(c)
        IN  /\ ~w.stale
            /\ \A i, j \in 1..Len(w.expanded) :
                  i # j => w.expanded[i] # w.expanded[j]
            /\ w.depth <= Cardinality(board_cells)

\* C15, its last clause alone: the nesting of the calls is at most the number
\* of cells of the board.
DepthWithinCellCount ==
    \A c \in board_cells : Walk(c).depth <= Cardinality(board_cells)

RECURSIVE drain(_, _, _, _, _)
\* a queue-driven traversal: the cell at the head of the queue is skipped when
\* it is open or flagged, opened otherwise, and a cell opened with label 0
\* puts its unmarked neighbours at the end of the queue; ret turns "False"
\* when a mine is opened
drain(b, rs, cs, queue, ret) ==
    IF queue = << >> THEN [board |-> b, ret |-> ret]
    ELSE LET d == Head(queue)
             b1 == [b EXCEPT ![d] = cell_opened(b[d])]
         IN  IF b[d].is_open \/ b[d].is_flagged
             THEN drain(b, rs, cs, Tail(queue), ret)
             ELSE IF b[d].mine
             THEN drain(b1, rs, cs, Tail(queue), "False")
             ELSE IF is_safe(b1[d])
             THEN drain(b1, rs, cs,
                        Tail(queue) \o get_neighbors(b1, rs, cs, d, FALSE, TRUE),
                        ret)
             ELSE drain(b1, rs, cs, Tail(queue), ret)

\* the open protocol on cell c in the current state, by the queue-driven
\* traversal: nothing on a flagged cell, the unmarked neighbours of an open
\* cell whose label equals its number of flagged neighbours, the cell itself
\* otherwise
QueueOpen(c) ==
    IF board[c].is_flagged THEN [board |-> board, ret |-> "True"]
    ELSE IF board[c].is_open
    THEN IF ~int_raises(board[c].name) /\ chord_ready(board, r_size, c_size, c)
         THEN drain(board, r_size, c_size,
                    get_neighbors(board, r_size, c_size, c, FALSE, TRUE), "True")
         ELSE [board |-> board, ret |-> "True"]
    ELSE drain(board, r_size, c_size, <<c>>, "True")

\* the walk of game.open on cell c, the neighbour lists taken last first
ReverseWalk(c) == open_walk(board, r_size, c_size, c, 1, TRUE)

\* C17: in every reachable state, flagged cells included, an open(cell) call
\* that returns leaves the same board and returns the same value when the
\* neighbours are visited in the opposite order, and the same as the
\* queue-driven traversal.
C17_SameResultInAnyOrder ==
    \A c \in board_cells :
        LET r == OpenResult(c)
            v == ReverseWalk(c)
            q == QueueOpen(c)
        IN  (r.raised = NoError /\ v.raised = NoError)
            => /\ v.board = r.board /\ v.ret = r.ret
               /\ q.board = r.board /\ q.ret = r.ret

\* C17 without flags: in every reachable state with no flagged cell, an
\* open(cell) call on a closed cell leaves the same board in either order
\* and the same as the queue-driven traversal.
SameResultWithoutFlags ==
    (\A d \in board_cells : ~board[d].is_flagged)
    => \A c \in board_cells :
          ~board[c].is_open
          => /\ ReverseWalk(c).board = OpenResult(c).board
             /\ QueueOpen(c).board = OpenResult(c).board

\* C11: in a GameBoard(...) call whose dimensions are accepted, num_mines < 1
\* is replaced by a count in [1, rows*cols - 1], num_mines in
\* [1, rows*cols - 1] is kept, and num_mines > rows*cols - 1 raises the
\* mine-count error; every constructed board has mines_left in
\* [1, rows*cols - 1].
C11_MineCountResolved ==
    (instances > 0 /\ raised \notin (DimensionErrors \cup ScreenErrors))
    => LET most == (call.rows * call.cols) - 1
       IN  /\ call.num_mines < 1
                => raised = NoError /\ 1 <= mines_left /\ mines_left <= most
           /\ (1 <= call.num_mines /\ call.num_mines <= most)
                => raised = NoError /\ mines_left = call.num_mines
           /\ call.num_mines > most => raised = "Too many mines"
           /\ raised = NoError
                => /\ 1 <= mines_left /\ mines_left <= most
                   /\ Cardinality(mine_cells) = mines_left

\* C11 happens: a board of 3x3 asked for with 9 mines is refused
C11_Witness ==
    /\ instances > 0
    /\ call.rows = 3 /\ call.cols = 3 /\ call.num_mines = 9
    /\ raised = "Too many mines"

\* C12: flag(cell) flips the flag of the cell, open or closed, and changes
\* nothing else on the board; flag(cell) twice gives the board back.
C12_FlagFlipsOneBit ==
    \A c \in board_cells :
        LET b1 == flag(board, c[1], c[2])
        IN  /\ b1[c] = [board[c] EXCEPT !.is_flagged = ~board[c].is_flagged]
            /\ \A d \in DOMAIN board : d # c => b1[d] = board[d]
            /\ DOMAIN b1 = DOMAIN board
            /\ flag(b1, c[1], c[2]) = board

\* C12 happens: an open cell next to a flagged one gets a flag of its own
C12_Witness ==
    \E c \in board_cells :
        /\ board[c].is_open /\ ~board[c].is_flagged
        /\ \E d \in Moore(c) : board[d].is_flagged
        /\ flag(board, c[1], c[2])[c].is_flagged

\* C13: in every reachable state no cell is both open and flagged.
C13_NoCellOpenAndFlagged ==
    \A c \in board_cells : ~(board[c].is_open /\ board[c].is_flagged)

\* C14: a cell that is open stays open through every open, flag and reveal
\* call.
C14_OpenStaysOpen ==
    [][\A c \in DOMAIN board : board[c].is_open => board'[c].is_open]_vars

\* C14 happens: the whole board is open, a flagged mine included, and a call
\* on it has raised
C14_Witness ==
    /\ \A c \in board_cells : board[c].is_open
    /\ \E m \in mine_cells : board[m].is_flagged
    /\ raised = ValueError

\* C16: open on a closed, unflagged cell that is no mine and whose label is
\* at least 1 returns True and opens that cell and nothing else.
C16_NumberedCellOpensAlone ==
    \A c \in board_cells :
        (/\ ~board[c].is_open /\ ~board[c].is_flagged
         /\ ~board[c].mine /\ board[c].name # "0")
        => OpenResult(c) =
              [board |-> [board EXCEPT ![c] = cell_opened(board[c])],
               ret |-> "True", raised |-> NoError]

\* C16 happens: a closed cell labelled 1 has a closed neighbour labelled 0 and
\* a flagged neighbour, and opening it leaves the label-0 neighbour closed
C16_Witness ==
    \E c \in board_cells :
        /\ ~board[c].is_open /\ ~board[c].is_flagged
        /\ board[c].name = "1"
        /\ \E d \in Moore(c) : board[d].is_flagged
        /\ \E d \in Moore(c) :
              /\ board[d].name = "0" /\ ~board[d].is_open
              /\ ~OpenResult(c).board[d].is_open

\* C18: reveal() in any reachable state leaves every cell open, changes no
\* flag, mine or label, and complete() is true afterwards.
C18_RevealOpensEverything ==
    LET b2 == reveal(board)
    IN  /\ \A c \in board_cells :
              b2[c] = [board[c] EXCEPT !.is_open = TRUE]
        /\ complete(b2, board_cells)

\* C19: when a second board is constructed after a first one, its cell
\* mapping holds exactly the coordinates of its own grid, the cells of the
\* first board are what they were, and reveal() on the second board changes
\* no cell that only the first board has.
C19_BoardStateIsPerInstance ==
    [][(instances = 1 /\ Constructed /\ raised' = NoError)
         => /\ DOMAIN board' = board_cells'
            /\ \A c \in board_cells : board'[c] = board[c]
            /\ \A c \in board_cells \ board_cells' :
                  reveal(board')[c] = board'[c]]_vars

===========================================================================
